---- MODULE Spec2Model ----
(***************************************************************************)
(* The movie catalog service: the request handlers of routes/movies.py and *)
(* the request schemas of schemas/movies.py, over a transactional          *)
(* persistence layer (tables, unique keys, sessions).                      *)
(*                                                                         *)
(* A handler runs one awaited persistence call per step, so that the calls *)
(* of requests in flight together interleave.                              *)
(*                                                                         *)
(* Dates are day numbers, floats are the integers they are given as, a     *)
(* country code is the tuple of its characters' code points, a nullable    *)
(* value is a sequence of length 0 (null) or 1.                            *)
(***************************************************************************)
EXTENDS Integers, Sequences, FiniteSets, TLC

VARIABLES
    db,        \* the committed tables: movies, countries, genres, actors, languages
    movieSeq,  \* the highest movie id the persistence layer has handed out
    today,     \* date.today(), a day number
    sess       \* the requests in flight, each with its session's state

vars == <<db, movieSeq, today, sess>>

---------------------------------------------------------------------------
(* Bounds of the model *)

MaxId == 3          \* movie ids handed out are in 1..MaxId
MaxPage == 3        \* list requests ask for pages up to MaxPage
MaxDay == 1         \* today advances from 0 to MaxDay

(* Program constants *)

MaxFutureDays == 365
ScoreMin == 0
ScoreMax == 100
MoneyMin == 0
NameMaxLength == 255
PageMin == 1
PerPageMin == 1
PerPageMax == 20

---------------------------------------------------------------------------
(* Small helpers *)

Max(S) == CHOOSE x \in S : \A y \in S : y <= x

MaxOr0(S) == IF S = {} THEN 0 ELSE Max(S)

Ids(rows) == {r.id : r \in rows}

Range(q) == {q[i] : i \in 1..Len(q)}

\* the rows of a table in descending id order (order_by(desc(MovieModel.id)))
RECURSIVE DescById(_)
DescById(rows) ==
    IF rows = {} THEN <<>>
    ELSE LET top == CHOOSE r \in rows : \A o \in rows : o.id <= r.id
         IN <<top>> \o DescById(rows \ {top})

SubSeqFrom(q, offset, limit) ==
    IF offset >= Len(q) THEN <<>>
    ELSE SubSeq(q, offset + 1, IF offset + limit <= Len(q) THEN offset + limit ELSE Len(q))

---------------------------------------------------------------------------
(* schemas/movies.py: the request schemas *)

\* the code points of A..Z
UpperLetters == 65..90

\* str.upper(), the characters that become one other character: runs
\* <<first, last, stride, offset>> of code points, each first + n * stride up
\* to last becoming itself + offset
UpperRuns ==
    <<
      <<97, 122, 1, -32>>, <<181, 181, 1, 743>>, <<224, 246, 1, -32>>,
      <<248, 254, 1, -32>>, <<255, 255, 1, 121>>, <<257, 303, 2, -1>>,
      <<305, 305, 1, -232>>, <<307, 311, 2, -1>>, <<314, 328, 2, -1>>,
      <<331, 375, 2, -1>>, <<378, 382, 2, -1>>, <<383, 383, 1, -300>>,
      <<384, 384, 1, 195>>, <<387, 389, 2, -1>>, <<392, 392, 1, -1>>,
      <<396, 396, 1, -1>>, <<402, 402, 1, -1>>, <<405, 405, 1, 97>>,
      <<409, 409, 1, -1>>, <<410, 410, 1, 163>>, <<414, 414, 1, 130>>,
      <<417, 421, 2, -1>>, <<424, 424, 1, -1>>, <<429, 429, 1, -1>>,
      <<432, 432, 1, -1>>, <<436, 438, 2, -1>>, <<441, 441, 1, -1>>,
      <<445, 445, 1, -1>>, <<447, 447, 1, 56>>, <<453, 453, 1, -1>>,
      <<454, 454, 1, -2>>, <<456, 456, 1, -1>>, <<457, 457, 1, -2>>,
      <<459, 459, 1, -1>>, <<460, 460, 1, -2>>, <<462, 476, 2, -1>>,
      <<477, 477, 1, -79>>, <<479, 495, 2, -1>>, <<498, 498, 1, -1>>,
      <<499, 499, 1, -2>>, <<501, 501, 1, -1>>, <<505, 543, 2, -1>>,
      <<547, 563, 2, -1>>, <<572, 572, 1, -1>>, <<575, 576, 1, 10815>>,
      <<578, 578, 1, -1>>, <<583, 591, 2, -1>>, <<592, 592, 1, 10783>>,
      <<593, 593, 1, 10780>>, <<594, 594, 1, 10782>>, <<595, 595, 1, -210>>,
      <<596, 596, 1, -206>>, <<598, 599, 1, -205>>, <<601, 601, 1, -202>>,
      <<603, 603, 1, -203>>, <<604, 604, 1, 42319>>, <<608, 608, 1, -205>>,
      <<609, 609, 1, 42315>>, <<611, 611, 1, -207>>, <<613, 613, 1, 42280>>,
      <<614, 614, 1, 42308>>, <<616, 616, 1, -209>>, <<617, 617, 1, -211>>,
      <<618, 618, 1, 42308>>, <<619, 619, 1, 10743>>, <<620, 620, 1, 42305>>,
      <<623, 623, 1, -211>>, <<625, 625, 1, 10749>>, <<626, 626, 1, -213>>,
      <<629, 629, 1, -214>>, <<637, 637, 1, 10727>>, <<640, 640, 1, -218>>,
      <<642, 642, 1, 42307>>, <<643, 643, 1, -218>>, <<647, 647, 1, 42282>>,
      <<648, 648, 1, -218>>, <<649, 649, 1, -69>>, <<650, 651, 1, -217>>,
      <<652, 652, 1, -71>>, <<658, 658, 1, -219>>, <<669, 669, 1, 42261>>,
      <<670, 670, 1, 42258>>, <<837, 837, 1, 84>>, <<881, 883, 2, -1>>,
      <<887, 887, 1, -1>>, <<891, 893, 1, 130>>, <<940, 940, 1, -38>>,
      <<941, 943, 1, -37>>, <<945, 961, 1, -32>>, <<962, 962, 1, -31>>,
      <<963, 971, 1, -32>>, <<972, 972, 1, -64>>, <<973, 974, 1, -63>>,
      <<976, 976, 1, -62>>, <<977, 977, 1, -57>>, <<981, 981, 1, -47>>,
      <<982, 982, 1, -54>>, <<983, 983, 1, -8>>, <<985, 1007, 2, -1>>,
      <<1008, 1008, 1, -86>>, <<1009, 1009, 1, -80>>, <<1010, 1010, 1, 7>>,
      <<1011, 1011, 1, -116>>, <<1013, 1013, 1, -96>>, <<1016, 1016, 1, -1>>,
      <<1019, 1019, 1, -1>>, <<1072, 1103, 1, -32>>, <<1104, 1119, 1, -80>>,
      <<1121, 1153, 2, -1>>, <<1163, 1215, 2, -1>>, <<1218, 1230, 2, -1>>,
      <<1231, 1231, 1, -15>>, <<1233, 1327, 2, -1>>, <<1377, 1414, 1, -48>>,
      <<4304, 4346, 1, 3008>>, <<4349, 4351, 1, 3008>>,
      <<5112, 5117, 1, -8>>, <<7296, 7296, 1, -6254>>,
      <<7297, 7297, 1, -6253>>, <<7298, 7298, 1, -6244>>,
      <<7299, 7300, 1, -6242>>, <<7301, 7301, 1, -6243>>,
      <<7302, 7302, 1, -6236>>, <<7303, 7303, 1, -6181>>,
      <<7304, 7304, 1, 35266>>, <<7545, 7545, 1, 35332>>,
      <<7549, 7549, 1, 3814>>, <<7566, 7566, 1, 35384>>,
      <<7681, 7829, 2, -1>>, <<7835, 7835, 1, -59>>, <<7841, 7935, 2, -1>>,
      <<7936, 7943, 1, 8>>, <<7952, 7957, 1, 8>>, <<7968, 7975, 1, 8>>,
      <<7984, 7991, 1, 8>>, <<8000, 8005, 1, 8>>, <<8017, 8023, 2, 8>>,
      <<8032, 8039, 1, 8>>, <<8048, 8049, 1, 74>>, <<8050, 8053, 1, 86>>,
      <<8054, 8055, 1, 100>>, <<8056, 8057, 1, 128>>, <<8058, 8059, 1, 112>>,
      <<8060, 8061, 1, 126>>, <<8112, 8113, 1, 8>>, <<8126, 8126, 1, -7205>>,
      <<8144, 8145, 1, 8>>, <<8160, 8161, 1, 8>>, <<8165, 8165, 1, 7>>,
      <<8526, 8526, 1, -28>>, <<8560, 8575, 1, -16>>, <<8580, 8580, 1, -1>>,
      <<9424, 9449, 1, -26>>, <<11312, 11359, 1, -48>>,
      <<11361, 11361, 1, -1>>, <<11365, 11365, 1, -10795>>,
      <<11366, 11366, 1, -10792>>, <<11368, 11372, 2, -1>>,
      <<11379, 11379, 1, -1>>, <<11382, 11382, 1, -1>>,
      <<11393, 11491, 2, -1>>, <<11500, 11502, 2, -1>>,
      <<11507, 11507, 1, -1>>, <<11520, 11557, 1, -7264>>,
      <<11559, 11559, 1, -7264>>, <<11565, 11565, 1, -7264>>,
      <<42561, 42605, 2, -1>>, <<42625, 42651, 2, -1>>,
      <<42787, 42799, 2, -1>>, <<42803, 42863, 2, -1>>,
      <<42874, 42876, 2, -1>>, <<42879, 42887, 2, -1>>,
      <<42892, 42892, 1, -1>>, <<42897, 42899, 2, -1>>,
      <<42900, 42900, 1, 48>>, <<42903, 42921, 2, -1>>,
      <<42933, 42947, 2, -1>>, <<42952, 42954, 2, -1>>,
      <<42961, 42961, 1, -1>>, <<42967, 42969, 2, -1>>,
      <<42998, 42998, 1, -1>>, <<43859, 43859, 1, -928>>,
      <<43888, 43967, 1, -38864>>, <<65345, 65370, 1, -32>>,
      <<66600, 66639, 1, -40>>, <<66776, 66811, 1, -40>>,
      <<66967, 67003, 2, -39>>, <<66968, 66977, 1, -39>>,
      <<66980, 66993, 1, -39>>, <<66996, 67001, 1, -39>>,
      <<67004, 67004, 1, -39>>, <<68800, 68850, 1, -64>>,
      <<71872, 71903, 1, -32>>, <<93792, 93823, 1, -32>>,
      <<125218, 125251, 1, -34>>
    >>

\* str.upper(), the characters that become more than one: <<code point, the
\* code points it becomes>>
UpperSpecial ==
    <<
      <<223, <<83, 83>>>>, <<329, <<700, 78>>>>, <<496, <<74, 780>>>>,
      <<912, <<921, 776, 769>>>>, <<944, <<933, 776, 769>>>>,
      <<1415, <<1333, 1362>>>>, <<7830, <<72, 817>>>>, <<7831, <<84, 776>>>>,
      <<7832, <<87, 778>>>>, <<7833, <<89, 778>>>>, <<7834, <<65, 702>>>>,
      <<8016, <<933, 787>>>>, <<8018, <<933, 787, 768>>>>,
      <<8020, <<933, 787, 769>>>>, <<8022, <<933, 787, 834>>>>,
      <<8064, <<7944, 921>>>>, <<8065, <<7945, 921>>>>,
      <<8066, <<7946, 921>>>>, <<8067, <<7947, 921>>>>,
      <<8068, <<7948, 921>>>>, <<8069, <<7949, 921>>>>,
      <<8070, <<7950, 921>>>>, <<8071, <<7951, 921>>>>,
      <<8072, <<7944, 921>>>>, <<8073, <<7945, 921>>>>,
      <<8074, <<7946, 921>>>>, <<8075, <<7947, 921>>>>,
      <<8076, <<7948, 921>>>>, <<8077, <<7949, 921>>>>,
      <<8078, <<7950, 921>>>>, <<8079, <<7951, 921>>>>,
      <<8080, <<7976, 921>>>>, <<8081, <<7977, 921>>>>,
      <<8082, <<7978, 921>>>>, <<8083, <<7979, 921>>>>,
      <<8084, <<7980, 921>>>>, <<8085, <<7981, 921>>>>,
      <<8086, <<7982, 921>>>>, <<8087, <<7983, 921>>>>,
      <<8088, <<7976, 921>>>>, <<8089, <<7977, 921>>>>,
      <<8090, <<7978, 921>>>>, <<8091, <<7979, 921>>>>,
      <<8092, <<7980, 921>>>>, <<8093, <<7981, 921>>>>,
      <<8094, <<7982, 921>>>>, <<8095, <<7983, 921>>>>,
      <<8096, <<8040, 921>>>>, <<8097, <<8041, 921>>>>,
      <<8098, <<8042, 921>>>>, <<8099, <<8043, 921>>>>,
      <<8100, <<8044, 921>>>>, <<8101, <<8045, 921>>>>,
      <<8102, <<8046, 921>>>>, <<8103, <<8047, 921>>>>,
      <<8104, <<8040, 921>>>>, <<8105, <<8041, 921>>>>,
      <<8106, <<8042, 921>>>>, <<8107, <<8043, 921>>>>,
      <<8108, <<8044, 921>>>>, <<8109, <<8045, 921>>>>,
      <<8110, <<8046, 921>>>>, <<8111, <<8047, 921>>>>,
      <<8114, <<8122, 921>>>>, <<8115, <<913, 921>>>>,
      <<8116, <<902, 921>>>>, <<8118, <<913, 834>>>>,
      <<8119, <<913, 834, 921>>>>, <<8124, <<913, 921>>>>,
      <<8130, <<8138, 921>>>>, <<8131, <<919, 921>>>>,
      <<8132, <<905, 921>>>>, <<8134, <<919, 834>>>>,
      <<8135, <<919, 834, 921>>>>, <<8140, <<919, 921>>>>,
      <<8146, <<921, 776, 768>>>>, <<8147, <<921, 776, 769>>>>,
      <<8150, <<921, 834>>>>, <<8151, <<921, 776, 834>>>>,
      <<8162, <<933, 776, 768>>>>, <<8163, <<933, 776, 769>>>>,
      <<8164, <<929, 787>>>>, <<8166, <<933, 834>>>>,
      <<8167, <<933, 776, 834>>>>, <<8178, <<8186, 921>>>>,
      <<8179, <<937, 921>>>>, <<8180, <<911, 921>>>>, <<8182, <<937, 834>>>>,
      <<8183, <<937, 834, 921>>>>, <<8188, <<937, 921>>>>,
      <<64256, <<70, 70>>>>, <<64257, <<70, 73>>>>, <<64258, <<70, 76>>>>,
      <<64259, <<70, 70, 73>>>>, <<64260, <<70, 70, 76>>>>,
      <<64261, <<83, 84>>>>, <<64262, <<83, 84>>>>,
      <<64275, <<1348, 1350>>>>, <<64276, <<1348, 1333>>>>,
      <<64277, <<1348, 1339>>>>, <<64278, <<1358, 1350>>>>,
      <<64279, <<1348, 1341>>>>
    >>

\* str.upper() on one character: the code points it becomes
UpperChar(c) ==
    IF c < 128 THEN (IF c \in 97..122 THEN <<c - 32>> ELSE <<c>>)
    ELSE IF \E n \in DOMAIN UpperSpecial : UpperSpecial[n][1] = c
    THEN UpperSpecial[CHOOSE n \in DOMAIN UpperSpecial : UpperSpecial[n][1] = c][2]
    ELSE IF \E n \in DOMAIN UpperRuns :
               /\ c >= UpperRuns[n][1] /\ c <= UpperRuns[n][2]
               /\ (c - UpperRuns[n][1]) % UpperRuns[n][3] = 0
    THEN <<c + UpperRuns[CHOOSE n \in DOMAIN UpperRuns :
                /\ c >= UpperRuns[n][1] /\ c <= UpperRuns[n][2]
                /\ (c - UpperRuns[n][1]) % UpperRuns[n][3] = 0][4]>>
    ELSE <<c>>

\* str.upper(): the upper case of each character, one after the other
RECURSIVE Upper(_)
Upper(v) == IF v = <<>> THEN <<>> ELSE UpperChar(Head(v)) \o Upper(Tail(v))

\* re.fullmatch(r"[A-Z]{2,3}", v)
CountryCodeMatch(v) ==
    /\ Len(v) \in 2..3
    /\ \A i \in 1..Len(v) : v[i] \in UpperLetters

\* the values of MovieStatusEnum
MovieStatusEnum == {"Released", "Post Production", "In Production"}

\* date_not_too_far: TRUE when the validator returns v, FALSE when it raises
DateNotTooFar(v, t) == ~(v > t + MaxFutureDays)

ScoreOk(v) == v >= ScoreMin /\ v <= ScoreMax

BudgetOk(v) == v >= MoneyMin

RevenueOk(v) == v >= MoneyMin

NameOk(v) == Len(v) <= NameMaxLength

\* MovieCreateSchema: TRUE when the payload validates
MovieCreateSchemaOk(p, t) ==
    /\ NameOk(p.name)
    /\ DateNotTooFar(p.date, t)
    /\ ScoreOk(p.score)
    /\ p.status \in MovieStatusEnum
    /\ BudgetOk(p.budget)
    /\ RevenueOk(p.revenue)
    /\ CountryCodeMatch(p.country)

ScalarFields == {"name", "date", "score", "overview", "status", "budget", "revenue"}

\* a "country" key of an update body: a string, or a value that is none
StrValue(chars) == [isStr |-> TRUE, chars |-> chars]

NonStrValue == [isStr |-> FALSE, chars |-> <<>>]

\* MovieUpdateSchema.validate_country (mode="before"): 0 when it returns,
\* 422 when it raises ValueError, 500 when country.upper() raises
\* AttributeError because the value is no string
UpdateCountryStatus(u) ==
    IF u.country = <<>> THEN 0
    ELSE IF ~u.country[1].isStr THEN 500
    ELSE IF CountryCodeMatch(Upper(u.country[1].chars)) THEN 0
    ELSE 422

\* The annotation of MovieUpdateSchema.date: the class body binds date to its
\* default, None, before the annotation Optional[date] is evaluated, so the
\* field's type is NoneType and only null validates.
UpdateDateTypeOk(isNull) == isNull

\* MovieUpdateSchema's field constraints on the fields the payload supplies
UpdateFieldsOk(u) ==
    /\ ("name" \in u.set \ u.null) => NameOk(u.name)
    /\ ("date" \in u.set) => UpdateDateTypeOk("date" \in u.null)
    /\ ("score" \in u.set \ u.null) => ScoreOk(u.score)
    /\ ("status" \in u.set \ u.null) => u.status \in MovieStatusEnum
    /\ ("budget" \in u.set \ u.null) => BudgetOk(u.budget)
    /\ ("revenue" \in u.set \ u.null) => RevenueOk(u.revenue)

\* date_not_too_far on a supplied null compares None with a date: TypeError,
\* which is no validation error and ends the request with 500
UpdateDateValidatorRaises(u) == "date" \in u.set /\ "date" \in u.null

\* The status validation of an update payload ends with: 0 when it validates
MovieUpdateSchemaStatus(u) ==
    IF UpdateCountryStatus(u) # 0 THEN UpdateCountryStatus(u)
    ELSE IF UpdateDateValidatorRaises(u) THEN 500
    ELSE IF ~UpdateFieldsOk(u) THEN 422
    ELSE 0

\* model_dump() without exclude_unset: the fields not supplied are dumped
\* with their default, null
ModelDumpUnset(u) ==
    [f \in ScalarFields |-> IF f \in u.set \ u.null THEN <<u[f]>> ELSE <<>>]

\* model_dump(exclude_unset=True): the supplied fields, null as <<>>
ModelDump(u) ==
    [f \in u.set |-> IF f \in u.null THEN <<>> ELSE <<u[f]>>]

---------------------------------------------------------------------------
(* The persistence layer: tables, keys and sessions *)

Kinds == <<"countries", "genres", "actors", "languages">>

EmptyTables ==
    [movies |-> {}, countries |-> {}, genres |-> {}, actors |-> {}, languages |-> {}]

NoAdded == [countries |-> {}, genres |-> {}, actors |-> {}, languages |-> {}]

NoFound == [countries |-> <<>>, genres |-> <<>>, actors |-> <<>>, languages |-> <<>>]

\* the natural key of a lookup row: a country's code, the others' name
KeyOf(k, row) == IF k = "countries" THEN row.code ELSE row.name

\* the unique key of a lookup table
LookupUnique(k, rows) ==
    \A a, b \in rows : KeyOf(k, a) = KeyOf(k, b) => a = b

\* the movies table without its unique key
MovieUniqueDropped(movies) == TRUE

\* the unique (name, date) key of the movies table
MovieUnique(movies) ==
    \A a, b \in movies : (a.name = b.name /\ a.date = b.date) => a = b

\* a movie's scalar columns hold no null
NotNullOk(dump) == \A f \in DOMAIN dump : dump[f] # <<>>

\* the id the persistence layer gives a new lookup row: the lowest id that
\* no row the session reads and no row of another open session holds (an id
\* whose insert was rolled back is free again)
NewLookupId(rows, busy) ==
    LET taken == Ids(rows) \cup busy
    IN  CHOOSE n \in 1..(Cardinality(taken) + 1) :
           n \notin taken /\ \A m \in 1..(n - 1) : m \in taken

\* the ids the persistence layer may give a new movie: one past the highest
\* stored id, or one past the highest id ever handed out
NewMovieIds(movies, seq) == {1 + MaxOr0(Ids(movies)), 1 + seq}

\* a DELETE that takes the movie's country row with it
DeleteRowsCascading(d, id) ==
    [d EXCEPT !.movies = {m \in @ : m.id # id},
              !.countries = {c \in @ : \A m \in d.movies : m.id = id => m.country # c.id}]

\* the DELETE of the movie with an id, its links with it
DeleteRows(d, id) == [d EXCEPT !.movies = {m \in @ : m.id # id}]

\* what a commit answers when its DELETE finds the row gone: the unit of
\* work warns, or raises on the links it meant to delete
StaleDeleteStatus == {204, 500}

\* the columns the UPDATE of a loaded row sets: the attributes given a value
\* other than the loaded one
Changed(row, dump) == {f \in DOMAIN dump : dump[f] # <<row[f]>>}

\* the request is answered
Answer(s, code, at, body) ==
    [s EXCEPT !.pc = "done", !.status = code, !.at = at, !.body = body]

\* the end of a request whose session made no change
Fail(d, s, code, at) == [s |-> Answer(s, code, at, <<>>), db |-> d]

\* the end of a create's session without a commit: what it added and
\* flushed is rolled back
SessionClose(d, s, code, at) ==
    [s |-> Answer([s EXCEPT !.added = NoAdded], code, at, <<>>), db |-> d]

\* what a create's session reads: the committed rows and the rows it
\* flushed itself
View(d, s) ==
    [movies    |-> d.movies,
     countries |-> d.countries \cup s.added.countries,
     genres    |-> d.genres \cup s.added.genres,
     actors    |-> d.actors \cup s.added.actors,
     languages |-> d.languages \cup s.added.languages]

\* scalar_one_or_none() of a select: "none", "one" or "many" (which raises)
ScalarOneOrNone(rows) ==
    IF rows = {} THEN "none" ELSE IF Cardinality(rows) = 1 THEN "one" ELSE "many"

RowById(rows, id) == CHOOSE r \in rows : r.id = id

\* select(MovieModel).where(MovieModel.id == movie_id)
Stored(d, id) == {m \in d.movies : m.id = id}

---------------------------------------------------------------------------
(* routes/movies.py: the response bodies *)

\* MovieDetailSchema.model_validate(movie)
MovieDetail(t, m) ==
    [id |-> m.id, name |-> m.name, date |-> m.date, score |-> m.score,
     overview |-> m.overview, status |-> m.status, budget |-> m.budget,
     revenue |-> m.revenue,
     country   |-> RowById(t.countries, m.country),
     genres    |-> [i \in 1..Len(m.genres) |-> RowById(t.genres, m.genres[i])],
     actors    |-> [i \in 1..Len(m.actors) |-> RowById(t.actors, m.actors[i])],
     languages |-> [i \in 1..Len(m.languages) |-> RowById(t.languages, m.languages[i])]]

MovieListItem(m) ==
    [id |-> m.id, name |-> m.name, date |-> m.date, score |-> m.score,
     overview |-> m.overview]

---------------------------------------------------------------------------
(* routes/movies.py: create_movie, one step per awaited persistence call *)

\* the natural keys a payload names for one kind of lookup entity
Keys(p, k) == IF k = "countries" THEN <<p.country>> ELSE p[k]

\* the first kind from index j on whose list is not empty, 5 when none is
FirstKindFrom(p, j) ==
    IF \E n \in j..4 : Keys(p, Kinds[n]) # <<>>
    THEN CHOOSE n \in j..4 : /\ Keys(p, Kinds[n]) # <<>>
                             /\ \A o \in j..(n - 1) : Keys(p, Kinds[o]) = <<>>
    ELSE 5

\* the loops' next iteration after item s.i of kind s.k is resolved to id
Resolved(s, id) ==
    LET k == Kinds[s.k]
        f == [s.found EXCEPT ![k] = Append(@, id)]
        more == s.i < Len(Keys(s.p, k))
        nk == FirstKindFrom(s.p, s.k + 1)
    IN  IF more THEN [s EXCEPT !.found = f, !.i = s.i + 1, !.pc = "select"]
        ELSE IF nk <= 4 THEN [s EXCEPT !.found = f, !.k = nk, !.i = 1, !.pc = "select"]
        ELSE [s EXCEPT !.found = f, !.k = 5, !.i = 1, !.pc = "commit"]

\* an existence check that compares the name alone
ExistingMovieByName(movies, p) ==
    {m \in movies : m.name = p.name}

\* the movies a create's existence check selects
ExistingMovie(movies, p) ==
    {m \in movies : m.name = p.name /\ m.date = p.date}

\* lines 121-131: the existence check
CheckExisting(d, s) ==
    LET found == ScalarOneOrNone(ExistingMovie(View(d, s).movies, s.p))
    IN  IF found = "many" THEN SessionClose(d, s, 500, "check")
        ELSE IF found = "one" THEN SessionClose(d, s, 409, "check")
        ELSE [s |-> [s EXCEPT !.pc = "select", !.k = 1, !.i = 1], db |-> d]

\* a lookup entity added without being looked up first
SelectLookupSkipped(d, s) ==
    [s |-> [s EXCEPT !.pc = "flush"], db |-> d]

\* the select of one country, genre, actor or language by its natural key
SelectLookup(d, s) ==
    LET k == Kinds[s.k]
        key == Keys(s.p, k)[s.i]
        rows == {r \in View(d, s)[k] : KeyOf(k, r) = key}
        found == ScalarOneOrNone(rows)
    IN  IF found = "many" THEN SessionClose(d, s, 500, "select")
        ELSE IF found = "one"
             THEN [s |-> Resolved(s, (CHOOSE r \in rows : TRUE).id), db |-> d]
        ELSE [s |-> [s EXCEPT !.pc = "flush"], db |-> d]

\* CountryModel(code=..., name=None), GenreModel(name=...), ...
NewLookupRow(k, id, key) ==
    IF k = "countries" THEN [id |-> id, code |-> key, name |-> <<>>]
    ELSE [id |-> id, name |-> key]

\* a commit where the flush is: the row is committed on the spot
FlushCommitted(d, s, k, row) ==
    [s |-> s, db |-> [d EXCEPT ![k] = @ \cup {row}]]

\* db.add(row); await db.flush(): the row is inserted in the session's
\* transaction, not committed
Flush(d, s, k, row) ==
    [s |-> [s EXCEPT !.added[k] = @ \cup {row}], db |-> d]

\* the insert of a lookup entity the select did not find
FlushLookup(d, busy, s) ==
    LET k == Kinds[s.k]
        key == Keys(s.p, k)[s.i]
        id == NewLookupId(View(d, s)[k], busy[k])
        row == NewLookupRow(k, id, key)
        r == Flush(d, s, k, row)
    IN  IF ~LookupUnique(k, View(d, s)[k] \cup {row})
        THEN SessionClose(d, s, 500, "flush")
        ELSE [s |-> Resolved(r.s, id), db |-> r.db]

\* lines 176-188: MovieModel(...)
NewMovieRow(id, s) ==
    [id |-> id, name |-> s.p.name, date |-> s.p.date, score |-> s.p.score,
     overview |-> s.p.overview, status |-> s.p.status, budget |-> s.p.budget,
     revenue |-> s.p.revenue,
     country |-> s.found.countries[1], genres |-> s.found.genres,
     actors |-> s.found.actors, languages |-> s.found.languages]

\* db.add(movie); await db.commit()
CommitMovie(d, mid, s) ==
    LET t == View(d, s)
        merged == [t EXCEPT !.movies = @ \cup {NewMovieRow(mid, s)}]
    IN  IF /\ MovieUnique(merged.movies)
           /\ \A n \in 1..4 : LookupUnique(Kinds[n], merged[Kinds[n]])
        THEN [s |-> [s EXCEPT !.pc = "refresh", !.added = NoAdded, !.movie = mid],
              db |-> merged]
        ELSE SessionClose(d, s, 500, "commit")

\* lines 192-196: db.refresh(movie, attribute_names=[genres, actors,
\* languages, country]) reloads the relations of the stored row; the scalar
\* attributes of the response are those the handler set from the payload
\* (the session does not expire them at commit), with the id of the commit
RefreshMovie(d, s) ==
    IF s.movie \in Ids(d.movies)
    THEN LET stored == RowById(d.movies, s.movie)
             movie == [NewMovieRow(s.movie, s) EXCEPT
                          !.country = stored.country, !.genres = stored.genres,
                          !.actors = stored.actors, !.languages = stored.languages]
         IN  [s |-> Answer(s, 201, "refresh", <<MovieDetail(d, movie)>>), db |-> d]
    ELSE SessionClose(d, s, 500, "refresh")

\* one step of create_movie: the awaited call raises, which ends the request
\* and its session, or does its work
CreateStep(d, busy, mid, raises, s) ==
    IF raises THEN SessionClose(d, s, 500, s.pc)
    ELSE IF s.pc = "check" THEN CheckExisting(d, s)
    ELSE IF s.pc = "select" THEN SelectLookup(d, s)
    ELSE IF s.pc = "flush" THEN FlushLookup(d, busy, s)
    ELSE IF s.pc = "commit" THEN CommitMovie(d, mid, s)
    ELSE RefreshMovie(d, s)

\* a create request as it enters the handler
NewSession(p) ==
    [op |-> "create", pc |-> "check", p |-> p, k |-> 1, i |-> 1,
     found |-> NoFound, added |-> NoAdded, movie |-> 0,
     status |-> 0, at |-> "check", body |-> <<>>]

---------------------------------------------------------------------------
(* routes/movies.py: get_movie, delete_movie, update_movie and
   get_movies_list, one step per awaited persistence call *)

GetSession(id) ==
    [op |-> "get", pc |-> "select", id |-> id, status |-> 0, at |-> "select",
     body |-> <<>>]

\* lines 93-109: the select and the response
GetStep(d, s) ==
    LET rows == Stored(d, s.id)
        found == ScalarOneOrNone(rows)
    IN  IF found = "many" THEN Fail(d, s, 500, "select")
        ELSE IF found = "none" THEN Fail(d, s, 404, "select")
        ELSE [s |-> Answer(s, 200, "select", <<MovieDetail(d, CHOOSE m \in rows : TRUE)>>),
              db |-> d]

DeleteSession(id) ==
    [op |-> "delete", pc |-> "select", id |-> id, row |-> <<>>, status |-> 0,
     at |-> "select", body |-> <<>>]

\* lines 201-207: the select of the movie to delete
DeleteSelect(d, s) ==
    LET rows == Stored(d, s.id)
        found == ScalarOneOrNone(rows)
    IN  IF found = "many" THEN Fail(d, s, 500, "select")
        ELSE IF found = "none" THEN Fail(d, s, 404, "select")
        ELSE [s |-> [s EXCEPT !.pc = "delete", !.row = <<CHOOSE m \in rows : TRUE>>],
              db |-> d]

\* line 209: await db.delete(movie) marks the loaded movie as deleted
DeleteMark(d, s) == [s |-> [s EXCEPT !.pc = "commit"], db |-> d]

\* line 210: await db.commit() runs the DELETE
DeleteCommit(d, s, stale) ==
    IF Stored(d, s.id) = {} /\ stale # 204 THEN Fail(d, s, stale, "commit")
    ELSE [s |-> Answer(s, 204, "commit", <<>>), db |-> DeleteRows(d, s.id)]

\* one step of delete_movie
DeleteStep(d, s, stale) ==
    IF s.pc = "select" THEN DeleteSelect(d, s)
    ELSE IF s.pc = "delete" THEN DeleteMark(d, s)
    ELSE DeleteCommit(d, s, stale)

UpdateSession(id, u) ==
    [op |-> "update", pc |-> "select", id |-> id, u |-> u, row |-> <<>>,
     status |-> 0, at |-> "select", body |-> <<>>]

\* lines 220-227: the select of the movie to update
UpdateSelect(d, s) ==
    LET rows == Stored(d, s.id)
        found == ScalarOneOrNone(rows)
    IN  IF found = "many" THEN Fail(d, s, 500, "select")
        ELSE IF found = "none" THEN Fail(d, s, 404, "select")
        ELSE [s |-> [s EXCEPT !.pc = "commit", !.row = <<CHOOSE m \in rows : TRUE>>],
              db |-> d]

\* for key, value in update_data.items(): setattr(movie, key, value)
SetAttrs(m, dump) ==
    [f \in DOMAIN m |-> IF f \in DOMAIN dump THEN dump[f][1] ELSE m[f]]

\* lines 229-235: the attributes are set on the loaded movie and
\* await db.commit() runs the UPDATE of those that changed
UpdateCommit(d, s) ==
    LET dump == ModelDump(s.u)
        changed == Changed(s.row[1], dump)
        sets == [f \in changed |-> dump[f]]
        rows == Stored(d, s.id)
        movies == (d.movies \ rows) \cup {SetAttrs(m, sets) : m \in rows}
        done == Answer(s, 200, "commit", <<"Movie updated successfully.">>)
    IN  IF changed = {} THEN [s |-> done, db |-> d]
        ELSE IF rows = {} THEN Fail(d, s, 500, "commit")
        ELSE IF ~NotNullOk(sets) THEN Fail(d, s, 500, "commit")
        ELSE IF ~MovieUnique(movies) THEN Fail(d, s, 500, "commit")
        ELSE [s |-> done, db |-> [d EXCEPT !.movies = movies]]

\* one step of update_movie
UpdateStep(d, s) ==
    IF s.pc = "select" THEN UpdateSelect(d, s) ELSE UpdateCommit(d, s)

\* Query(1, ge=1) and Query(10, ge=1, le=20)
ListQueryOk(page, per_page) ==
    page >= PageMin /\ per_page >= PerPageMin /\ per_page <= PerPageMax

\* a page count that rounds down
TotalPagesFloor(total_items, per_page) == total_items \div per_page

TotalPages(total_items, per_page) == (total_items + per_page - 1) \div per_page

PageLink(page, per_page) == [page |-> page, per_page |-> per_page]

ListSession(page, per_page) ==
    [op |-> "list", pc |-> "count", page |-> page, per_page |-> per_page,
     total_items |-> 0, status |-> 0, at |-> "count", body |-> <<>>]

\* lines 36-44: the count and the two NotFound answers
ListCount(d, s) ==
    LET total_items == Cardinality(d.movies)
        total_pages == TotalPages(total_items, s.per_page)
    IN  IF total_items = 0 THEN Fail(d, s, 404, "count")
        ELSE IF s.page > total_pages THEN Fail(d, s, 404, "range")
        ELSE [s |-> [s EXCEPT !.pc = "select", !.total_items = total_items], db |-> d]

\* lines 46-53: the page of movies in descending id order
SelectPage(movies, page, per_page) ==
    SubSeqFrom(DescById(movies), per_page * (page - 1), per_page)

\* lines 46-84: the select of the page and the response
ListSelect(d, s) ==
    LET total_pages == TotalPages(s.total_items, s.per_page)
        movies == SelectPage(d.movies, s.page, s.per_page)
    IN  [s |-> Answer(s, 200, "select",
               <<[movies      |-> [i \in 1..Len(movies) |-> MovieListItem(movies[i])],
                  prev_page   |-> IF s.page > 1
                                  THEN <<PageLink(s.page - 1, s.per_page)>> ELSE <<>>,
                  next_page   |-> IF s.page < total_pages
                                  THEN <<PageLink(s.page + 1, s.per_page)>> ELSE <<>>,
                  total_pages |-> total_pages,
                  total_items |-> s.total_items]>>),
         db |-> d]

\* one step of get_movies_list
ListStep(d, s) ==
    IF s.pc = "count" THEN ListCount(d, s) ELSE ListSelect(d, s)

---------------------------------------------------------------------------
(* The requests in flight: each arrives, makes its handler's awaited calls
   one step at a time, and is answered *)

Sessions == {1, 2}

\* no request in the slot
Idle == [pc |-> "idle"]

Active == {i \in Sessions : sess[i].pc \notin {"idle", "done"}}

Answered == {i \in Sessions : sess[i].pc = "done"}

Creating == {i \in Active : sess[i].op = "create"}

\* the lookup ids held by rows other sessions have flushed and not committed
BusyIds(i) ==
    [k \in DOMAIN NoAdded |->
        UNION {Ids(sess[j].added[k]) : j \in Creating \ {i}}]

\* a request takes the first slot that is free
Free(i) ==
    /\ sess[i].pc = "idle"
    /\ \A j \in Sessions : j < i => sess[j].pc # "idle"

\* POST /movies/ arrives while fewer than MaxId movie ids are handed out or
\* about to be: the payload is validated, then the handler's first
\* call is due
StartCreate(i, p) ==
    /\ Free(i)
    /\ movieSeq + Cardinality(Creating) < MaxId
    /\ sess' = [sess EXCEPT ![i] =
                  IF MovieCreateSchemaOk(p, today) THEN NewSession(p)
                  ELSE Answer(NewSession(p), 422, "schema", <<>>)]
    /\ UNCHANGED <<db, movieSeq, today>>

\* GET /movies/{movie_id}/ arrives
StartGet(i, id) ==
    /\ Free(i)
    /\ sess' = [sess EXCEPT ![i] = GetSession(id)]
    /\ UNCHANGED <<db, movieSeq, today>>

\* DELETE /movies/{movie_id}/ arrives
StartDelete(i, id) ==
    /\ Free(i)
    /\ sess' = [sess EXCEPT ![i] = DeleteSession(id)]
    /\ UNCHANGED <<db, movieSeq, today>>

\* PATCH /movies/{movie_id}/ arrives: the payload is validated
StartUpdate(i, id, u) ==
    /\ Free(i)
    /\ sess' = [sess EXCEPT ![i] =
                  IF MovieUpdateSchemaStatus(u) = 0 THEN UpdateSession(id, u)
                  ELSE Answer(UpdateSession(id, u), MovieUpdateSchemaStatus(u),
                              "schema", <<>>)]
    /\ UNCHANGED <<db, movieSeq, today>>

\* GET /movies/?page=&per_page= arrives: the query is validated
StartList(i, page, per_page) ==
    /\ Free(i)
    /\ sess' = [sess EXCEPT ![i] =
                  IF ListQueryOk(page, per_page) THEN ListSession(page, per_page)
                  ELSE Answer(ListSession(page, per_page), 422, "query", <<>>)]
    /\ UNCHANGED <<db, movieSeq, today>>

\* the next awaited call of create request i completes, or raises
StepCreate(i, raises) ==
    /\ i \in Creating
    /\ \E mid \in (IF sess[i].pc = "commit"
                   THEN NewMovieIds(db.movies, movieSeq)
                   ELSE {0}) :
          LET r == CreateStep(db, BusyIds(i), mid, raises, sess[i])
          IN  /\ db' = r.db
              /\ sess' = [sess EXCEPT ![i] = r.s]
              /\ movieSeq' = IF r.db.movies # db.movies /\ mid > movieSeq
                             THEN mid ELSE movieSeq
    /\ UNCHANGED today

\* the awaited call of detail request i completes
StepGet(i) ==
    /\ i \in Active
    /\ sess[i].op = "get"
    /\ LET r == GetStep(db, sess[i])
       IN  db' = r.db /\ sess' = [sess EXCEPT ![i] = r.s]
    /\ UNCHANGED <<movieSeq, today>>

\* the next awaited call of delete request i completes
StepDelete(i) ==
    /\ i \in Active
    /\ sess[i].op = "delete"
    /\ \E stale \in StaleDeleteStatus :
          LET r == DeleteStep(db, sess[i], stale)
          IN  db' = r.db /\ sess' = [sess EXCEPT ![i] = r.s]
    /\ UNCHANGED <<movieSeq, today>>

\* the next awaited call of update request i completes
StepUpdate(i) ==
    /\ i \in Active
    /\ sess[i].op = "update"
    /\ LET r == UpdateStep(db, sess[i])
       IN  db' = r.db /\ sess' = [sess EXCEPT ![i] = r.s]
    /\ UNCHANGED <<movieSeq, today>>

\* the next awaited call of list request i completes
StepList(i) ==
    /\ i \in Active
    /\ sess[i].op = "list"
    /\ LET r == ListStep(db, sess[i])
       IN  db' = r.db /\ sess' = [sess EXCEPT ![i] = r.s]
    /\ UNCHANGED <<movieSeq, today>>

\* the response of request i is sent and its slot is free again
Respond(i) ==
    /\ sess[i].pc = "done"
    /\ sess' = [sess EXCEPT ![i] = Idle]
    /\ UNCHANGED <<db, movieSeq, today>>

\* midnight: date.today() moves on
Tick ==
    /\ today < MaxDay
    /\ today' = today + 1
    /\ UNCHANGED <<db, movieSeq, sess>>

---------------------------------------------------------------------------
(* The inputs *)

US == <<85, 83>>
FR == <<70, 82>>

D1 == "x"
D2 == D1 \o D1
D4 == D2 \o D2
D16 == D4 \o D4 \o D4 \o D4
D64 == D16 \o D16 \o D16 \o D16
LongName == D64 \o D64 \o D64 \o D64

Payload(name, date, score, overview, status, budget, revenue, country, genres, actors, languages) ==
    [name |-> name, date |-> date, score |-> score, overview |-> overview,
     status |-> status, budget |-> budget, revenue |-> revenue,
     country |-> country, genres |-> genres, actors |-> actors,
     languages |-> languages]

\* a payload that varies the lookup entities it names
Linked(name, country, genres, actors, languages) ==
    Payload(name, 100, 50, "o1", "Released", 0, 0, country, genres, actors, languages)

\* a payload that varies the scalar fields
Scored(date, score, budget, revenue) ==
    Payload("Alien", date, score, "o1", "Released", budget, revenue,
            US, <<"Drama">>, <<>>, <<>>)

\* an update payload: the fields it supplies, those it supplies as null,
\* the values of the others, and an extra "country" key or none
Patch(set, null, name, score, country) ==
    [set |-> set, null |-> null, name |-> name, date |-> 365, score |-> score,
     overview |-> "o2", status |-> "In Production", budget |-> 7, revenue |-> 9,
     country |-> country]

Init ==
    /\ db = EmptyTables
    /\ movieSeq = 0
    /\ today = 0
    /\ sess = [i \in Sessions |-> Idle]

MovieIds == 1..MaxId

\* request i made one of its handler's awaited calls
Steps(i) == i \in Active /\ sess'[i] # sess[i]

\* a stored movie has the payload's name and date
Duplicates(movies, p) == \E m \in movies : m.name = p.name /\ m.date = p.date

LookupTables(d) == [k \in DOMAIN NoAdded |-> d[k]]

KeysOf(k, rows) == {KeyOf(k, r) : r \in rows}

---------------------------------------------------------------------------
(* The catalog: creates, updates, deletes and reads of movies that differ
   in name and date, in flight together *)

Names == {"Alien", "Brazil"}

CatalogCreates == {Linked(n, US, <<>>, <<>>, <<>>) : n \in Names}

CatalogUpdates == {Patch({"name"}, {}, n, 50, <<>>) : n \in Names}

Next ==
    \/ \E i \in Sessions, p \in CatalogCreates : StartCreate(i, p)
    \/ \E i \in Sessions, id \in MovieIds, u \in CatalogUpdates : StartUpdate(i, id, u)
    \/ \E i \in Sessions, id \in MovieIds : StartDelete(i, id)
    \/ \E i \in Sessions : StepCreate(i, FALSE)
    \/ \E i \in Sessions : StepUpdate(i)
    \/ \E i \in Sessions : StepDelete(i)
    \/ \E i \in Sessions : Respond(i)

Spec == Init /\ [][Next]_vars

\* C1: in every reachable state no two stored movies have the same
\* (name, date) pair, whatever creates, updates and deletes came before or
\* are in flight
C1_UniqueNameDate ==
    \A a, b \in db.movies : (a.name = b.name /\ a.date = b.date) => a.id = b.id

\* an update that would have given a movie the pair of another one was
\* refused at its commit
C1_CollidingUpdate ==
    \E i \in Answered :
        /\ sess[i].op = "update"
        /\ sess[i].status = 500
        /\ sess[i].at = "commit"
        /\ "name" \in sess[i].u.set
        /\ \E m \in db.movies : /\ m.id = sess[i].id
                                /\ m.name # sess[i].u.name
                                /\ \E o \in db.movies : /\ o.id # m.id
                                                        /\ o.name = sess[i].u.name
                                                        /\ o.date = m.date

---------------------------------------------------------------------------
(* Duplicates: creates of one name under two dates and with two countries,
   and deletes, in flight together *)

DuplicateCreates ==
    {Linked("Alien", US, <<>>, <<>>, <<>>),
     [Linked("Alien", US, <<>>, <<>>, <<>>) EXCEPT !.date = 200],
     Linked("Alien", FR, <<>>, <<>>, <<>>)}

NextCreate ==
    \/ \E i \in Sessions, p \in DuplicateCreates : StartCreate(i, p)
    \/ \E i \in Sessions, id \in MovieIds : StartDelete(i, id)
    \/ \E i \in Sessions : StepCreate(i, FALSE)
    \/ \E i \in Sessions : StepDelete(i)
    \/ \E i \in Sessions : Respond(i)

SpecCreate == Init /\ [][NextCreate]_vars

\* C2: a create whose (name, date) is stored when its existence check runs
\* is answered 409 by that call, its first, so that it changes no table,
\* also when it names lookup entities not stored; a create whose (name,
\* date) is not stored (the same name with another date included) passes
\* the check, its commit adds exactly one movie, with that name and date,
\* unless the pair or a key it flushed has been stored since, and it is
\* answered 201 with that movie while the movie is stored; a create adds a
\* movie at no other call
C2_DuplicateConflict ==
    [][\A i \in Sessions : (Steps(i) /\ sess[i].op = "create") =>
         LET s == sess[i]
             t == sess'[i]
             new == db'.movies \ db.movies
         IN  /\ s.pc = "check" =>
                  IF Duplicates(db.movies, s.p)
                  THEN t.pc = "done" /\ t.status = 409 /\ db' = db
                  ELSE t.pc = "select"
             /\ (t.pc = "done" /\ t.status = 409) => s.pc = "check"
             /\ (/\ s.pc = "commit"
                 /\ ~Duplicates(db.movies, s.p)
                 /\ \A n \in 1..4 :
                       KeysOf(Kinds[n], s.added[Kinds[n]])
                          \cap KeysOf(Kinds[n], db[Kinds[n]]) = {}) =>
                  /\ t.pc = "refresh"
                  /\ db.movies \subseteq db'.movies
                  /\ Cardinality(new) = 1
                  /\ \A m \in new : m.name = s.p.name /\ m.date = s.p.date
             /\ db'.movies # db.movies => s.pc = "commit" /\ t.pc = "refresh"
             /\ (s.pc = "refresh" /\ s.movie \in Ids(db.movies)) =>
                  /\ t.status = 201
                  /\ t.body[1].id = s.movie]_vars

\* a create was refused as a duplicate while naming a country not stored,
\* and the same name is stored under two dates
C2_RefusedWithNewLookups ==
    /\ \E i \in Answered :
          /\ sess[i].op = "create"
          /\ sess[i].status = 409
          /\ ~\E c \in db.countries : c.code = sess[i].p.country
    /\ \E a, b \in db.movies : a.name = b.name /\ a.date # b.date

---------------------------------------------------------------------------
(* Deletes: creates, deletes, fetches and updates of the same ids, in
   flight together *)

DeleteCreates == {Linked(n, US, <<>>, <<>>, <<>>) : n \in Names}

DeleteUpdates == {Patch({"score"}, {}, "Alien", 60, <<>>)}

NextDelete ==
    \/ \E i \in Sessions, p \in DeleteCreates : StartCreate(i, p)
    \/ \E i \in Sessions, id \in MovieIds : StartDelete(i, id)
    \/ \E i \in Sessions, id \in MovieIds : StartGet(i, id)
    \/ \E i \in Sessions, id \in MovieIds, u \in DeleteUpdates : StartUpdate(i, id, u)
    \/ \E i \in Sessions : StepCreate(i, FALSE)
    \/ \E i \in Sessions : StepDelete(i)
    \/ \E i \in Sessions : StepGet(i)
    \/ \E i \in Sessions : StepUpdate(i)
    \/ \E i \in Sessions : Respond(i)

SpecDelete == Init /\ [][NextDelete]_vars

\* C9 as stated: an id that was handed out and deleted never holds a movie
\* again (so that every later fetch, update or delete of it is NotFound)
C9_DeletedIdStaysAbsent ==
    [][\A id \in MovieIds :
          (id <= movieSeq /\ id \notin Ids(db.movies)) => id \notin Ids(db'.movies)]_vars

\* C9, amended: a delete whose select finds no movie under the id is
\* answered 404 and changes nothing; the commit of a delete that finds the
\* movie stored is answered 204, and a commit answered 204 removes exactly
\* the movie of that id with its links, every other movie and every lookup
\* row staying; an id with no movie gets one only by the commit of a create,
\* and until then the select of a fetch, a delete or a validated update of
\* the id is answered 404 and changes nothing
C9_DeleteRemovesExactlyOne ==
    [][\A i \in Sessions : Steps(i) =>
         LET s == sess[i]
             t == sess'[i]
         IN  /\ (s.op = "delete" /\ s.pc = "select") =>
                  /\ db' = db
                  /\ IF Stored(db, s.id) = {}
                     THEN t.pc = "done" /\ t.status = 404
                     ELSE t.pc = "delete"
             /\ (s.op = "delete" /\ s.pc = "delete") => db' = db /\ t.pc = "commit"
             /\ (s.op = "delete" /\ s.pc = "commit") =>
                  /\ Stored(db, s.id) # {} => t.status = 204
                  /\ t.status = 204 =>
                       /\ db'.movies = {m \in db.movies : m.id # s.id}
                       /\ LookupTables(db') = LookupTables(db)
                  /\ t.status # 204 => db' = db
             /\ (/\ s.op \in {"get", "update"}
                 /\ s.pc = "select"
                 /\ Stored(db, s.id) = {}) =>
                  t.pc = "done" /\ t.status = 404 /\ db' = db
             /\ \A id \in MovieIds \ Ids(db.movies) :
                  id \in Ids(db'.movies) => s.op = "create" /\ s.pc = "commit"]_vars

\* a stored movie was deleted, another one is still stored with its lookup
\* rows, and the deleted id was then asked for and not found
C9_DeletedThenNotFound ==
    \E i \in Answered :
        /\ sess[i].op = "get"
        /\ sess[i].status = 404
        /\ sess[i].id <= movieSeq
        /\ sess[i].id \notin Ids(db.movies)
        /\ db.movies # {}
        /\ db.countries # {}

---------------------------------------------------------------------------
(* The list: catalogs of 0..MaxId movies read page by page while creates
   and deletes are in flight *)

ListCreates ==
    {Linked(n, US, <<>>, <<>>, <<>>) : n \in {"Alien", "Brazil", "Casino"}}

PerPages == {0, 1, 2, 20, 21}

NextList ==
    \/ \E i \in Sessions, p \in ListCreates : StartCreate(i, p)
    \/ \E i \in Sessions, id \in MovieIds : StartDelete(i, id)
    \/ \E i \in Sessions, page \in 0..MaxPage, per_page \in PerPages :
          StartList(i, page, per_page)
    \/ \E i \in Sessions : StepCreate(i, FALSE)
    \/ \E i \in Sessions : StepDelete(i)
    \/ \E i \in Sessions : StepList(i)
    \/ \E i \in Sessions : Respond(i)

SpecList == Init /\ [][NextList]_vars

\* ceil(n / per_page)
CeilDiv(n, per_page) ==
    IF n % per_page = 0 THEN n \div per_page ELSE (n \div per_page) + 1

Min(a, b) == IF a <= b THEN a ELSE b

\* the position of a movie in descending-id order, from 0
Position(movies, m) == Cardinality({o \in movies : o.id > m.id})

\* C5: a list request with page >= 1 and per_page in 1..20 changes nothing.
\* For the catalog of N movies its count runs over: NotFound when N = 0 and
\* when page > ceil(N / per_page). For the catalog of N movies its select
\* runs over, N being the number counted: exactly the movies at positions
\* per_page*(page-1) .. min(per_page*page, N)-1 of the descending-id order,
\* in that order, between 1 and per_page of them, with total_items = N and
\* total_pages = ceil(N / per_page); and every movie of that catalog is on
\* exactly one of the pages 1..total_pages
C5_Pagination ==
    [][\A i \in Sessions : (Steps(i) /\ sess[i].op = "list") =>
         LET s == sess[i]
             t == sess'[i]
             N == Cardinality(db.movies)
             pages == CeilDiv(N, s.per_page)
             lo == s.per_page * (s.page - 1)
             hi == Min(s.per_page * s.page, N) - 1
         IN  /\ db' = db
             /\ s.page >= 1 /\ s.per_page \in 1..20
             /\ s.pc = "count" =>
                  /\ N = 0 => t.pc = "done" /\ t.status = 404
                  /\ (N > 0 /\ s.page > pages) => t.pc = "done" /\ t.status = 404
                  /\ (N > 0 /\ s.page <= pages) => t.pc = "select" /\ t.total_items = N
             /\ (s.pc = "select" /\ N = s.total_items) =>
                  /\ t.status = 200
                  /\ t.body[1].total_items = N
                  /\ t.body[1].total_pages = pages
                  /\ Len(t.body[1].movies) = hi - lo + 1
                  /\ Len(t.body[1].movies) \in 1..s.per_page
                  /\ \A m \in db.movies :
                       Position(db.movies, m) \in lo..hi =>
                         t.body[1].movies[Position(db.movies, m) - lo + 1]
                           = MovieListItem(m)
                  /\ \A m \in db.movies :
                       Cardinality({q \in 1..pages :
                          m \in Range(SelectPage(db.movies, q, s.per_page))}) = 1]_vars

\* the second and last page of a catalog of three movies was asked for with
\* two movies to the page, and shows the one movie of the lowest id
C5_ShortLastPage ==
    \E i \in Answered :
        /\ sess[i].op = "list"
        /\ sess[i].status = 200
        /\ sess[i].page = 2
        /\ sess[i].per_page = 2
        /\ sess[i].body[1].total_pages = 2
        /\ sess[i].body[1].total_items = 3
        /\ Cardinality(db.movies) = 3
        /\ Len(sess[i].body[1].movies) = 1
        /\ \A m \in db.movies : sess[i].body[1].movies[1].id <= m.id
        /\ sess[i].body[1].next_page = <<>>
        /\ sess[i].body[1].prev_page # <<>>

---------------------------------------------------------------------------
(* The lookup entities: creates that name countries, genres, actors and
   languages, in flight together *)

LookupCreates ==
    {Linked("Alien", US, <<"Drama", "Drama">>, <<>>, <<>>),
     Linked("Brazil", US, <<"Drama">>, <<"Ann">>, <<"en">>)}

NextLookup ==
    \/ \E i \in Sessions, p \in LookupCreates : StartCreate(i, p)
    \/ \E i \in Sessions, id \in MovieIds : StartDelete(i, id)
    \/ \E i \in Sessions : StepCreate(i, FALSE)
    \/ \E i \in Sessions : StepDelete(i)
    \/ \E i \in Sessions : Respond(i)

SpecLookup == Init /\ [][NextLookup]_vars

\* C3: lookup entities are created once and reused. After every step no two
\* country rows share a code and no two genre, actor or language rows share
\* a name. A create adds and flushes a row for a code or name exactly when
\* its select finds none, among the stored rows and those it flushed itself
\* (so that a name repeated in a list gets one row). A create that commits
\* keeps every lookup row there was and adds, per table, exactly one row for
\* each distinct code or name of its payload that had no row (none for one
\* that had), a new country with a null name; no other call of a create
\* changes a lookup table
C3_LookupsCreatedOnce ==
    [][/\ \A n \in 1..4 :
            \A a, b \in db'[Kinds[n]] :
               KeyOf(Kinds[n], a) = KeyOf(Kinds[n], b) => a.id = b.id
       /\ \A i \in Sessions : (Steps(i) /\ sess[i].op = "create") =>
            LET s == sess[i]
                t == sess'[i]
                committed == s.pc = "commit" /\ t.pc = "refresh"
            IN  /\ s.pc = "select" =>
                     (t.pc = "flush" <=>
                        Keys(s.p, Kinds[s.k])[s.i]
                           \notin KeysOf(Kinds[s.k], View(db, s)[Kinds[s.k]]))
                /\ committed =>
                     \A n \in 1..4 :
                        LET k == Kinds[n]
                            new == db'[k] \ db[k]
                            missing == Range(Keys(s.p, k)) \ KeysOf(k, db[k])
                        IN  /\ db[k] \subseteq db'[k]
                            /\ KeysOf(k, new) = missing
                            /\ Cardinality(new) = Cardinality(missing)
                            /\ k = "countries" => \A r \in new : r.name = <<>>
                /\ ~committed => LookupTables(db') = LookupTables(db)]_vars

\* a create that repeats a name in its list succeeded with all of its
\* lookup entities already stored by an earlier create
C3_ReusedAndRepeated ==
    \E i \in Answered :
        /\ sess[i].op = "create"
        /\ sess[i].status = 201
        /\ sess[i].p.genres = <<"Drama", "Drama">>
        /\ Cardinality(db.movies) = 2
        /\ Cardinality(db.countries) = 1
        /\ Cardinality(db.genres) = 1
        /\ Cardinality(db.actors) = 1
        /\ sess[i].body[1].genres[1] = sess[i].body[1].genres[2]
        /\ sess[i].body[1].id = Max(Ids(db.movies))

---------------------------------------------------------------------------
(* Failures: creates whose awaited persistence calls may raise *)

FaultCreates ==
    {Linked("Alien", FR, <<"Drama">>, <<"Ann">>, <<"en">>),
     Linked("Brazil", US, <<>>, <<>>, <<>>)}

NextFault ==
    \/ \E i \in Sessions, p \in FaultCreates : StartCreate(i, p)
    \/ \E i \in Sessions, raises \in BOOLEAN : StepCreate(i, raises)
    \/ \E i \in Sessions : Respond(i)

SpecFault == Init /\ [][NextFault]_vars

\* C4: a create changes the stored tables at one call only, its commit when
\* it succeeds, and then adds its movie and the lookup rows it flushed
\* together. A create that fails at its existence check, at a lookup
\* select, at a flush or at its commit has therefore changed no table: it
\* has committed nothing, and the lookup rows it had added and flushed are
\* rolled back with its session
C4_CreateAllOrNothing ==
    [][\A i \in Sessions : (Steps(i) /\ sess[i].op = "create") =>
         LET s == sess[i]
             t == sess'[i]
         IN  /\ db' # db => s.pc = "commit" /\ t.pc = "refresh" /\ t.movie # 0
             /\ s.pc \in {"check", "select", "flush", "commit"} => s.movie = 0
             /\ (/\ t.pc = "done"
                 /\ t.status = 500
                 /\ t.at \in {"check", "select", "flush", "commit"}) =>
                  /\ db' = db
                  /\ t.movie = 0
                  /\ t.added = NoAdded
                  /\ \A n \in 1..4 :
                        Ids(s.added[Kinds[n]]) \cap Ids(db'[Kinds[n]]) = {}]_vars

\* a create failed at its commit after it had flushed a country, a genre,
\* an actor and a language that are not stored
C4_FailedAfterFlushes ==
    \E i \in Answered :
        /\ sess[i].op = "create"
        /\ sess[i].status = 500
        /\ sess[i].at = "commit"
        /\ sess[i].p.country \notin KeysOf("countries", db.countries)
        /\ sess[i].p.genres # <<>>
        /\ Range(sess[i].p.genres) \cap KeysOf("genres", db.genres) = {}
        /\ sess[i].p.actors # <<>>
        /\ Range(sess[i].p.actors) \cap KeysOf("actors", db.actors) = {}
        /\ sess[i].p.languages # <<>>
        /\ Range(sess[i].p.languages) \cap KeysOf("languages", db.languages) = {}
        /\ db.movies # {}

---------------------------------------------------------------------------
(* Partial updates: two movies updated while other creates and updates are
   in flight *)

PatchCreates ==
    {Linked(n, US, <<"Drama">>, <<>>, <<>>) : n \in {"Alien", "Brazil"}}

PatchUpdates ==
    {Patch({"score"}, {}, "Alien", 60, <<>>),
     Patch({"name", "overview"}, {}, "Brazil", 50, <<>>),
     Patch({"score"}, {"score"}, "Alien", 50, <<>>)}

NextPatch ==
    \/ \E i \in Sessions, p \in PatchCreates : StartCreate(i, p)
    \/ \E i \in Sessions, id \in MovieIds, u \in PatchUpdates : StartUpdate(i, id, u)
    \/ \E i \in Sessions : StepCreate(i, FALSE)
    \/ \E i \in Sessions : StepUpdate(i)
    \/ \E i \in Sessions : Respond(i)

SpecPatch == Init /\ [][NextPatch]_vars

\* the update would give its movie the (name, date) pair of another movie
Collides(movies, id, u) ==
    /\ "name" \in u.set
    /\ \E m \in movies, o \in movies :
          m.id = id /\ o.id # id /\ o.name = u.name /\ o.date = m.date

\* C6: an update whose payload passed validation answers NotFound at its
\* select when no movie has the id, and changes nothing. At its commit it
\* changes no other movie and no lookup entity, and leaves every field
\* omitted from the payload, and the country, genres, actors and languages,
\* of its movie as they are. When the movie it loaded is still stored as it
\* was loaded: the update succeeds unless it supplies a null or the (name,
\* date) pair of another movie; when it succeeds the stored movie holds the
\* supplied values, and a detail fetch returns them with the original other
\* fields. An update that does not succeed changes nothing
C6_PartialUpdate ==
    [][\A i \in Sessions : (Steps(i) /\ sess[i].op = "update") =>
         LET s == sess[i]
             t == sess'[i]
             u == s.u
             got == GetStep(db', GetSession(s.id)).s
         IN  /\ s.pc = "select" =>
                  /\ db' = db
                  /\ IF Stored(db, s.id) = {}
                     THEN t.pc = "done" /\ t.status = 404
                     ELSE t.pc = "commit" /\ t.row[1] \in db.movies
             /\ s.pc = "commit" =>
                  /\ db'.movies \ Stored(db', s.id) = db.movies \ Stored(db, s.id)
                  /\ LookupTables(db') = LookupTables(db)
                  /\ \A m \in Stored(db, s.id) :
                        \E n \in Stored(db', s.id) :
                           \A f \in DOMAIN m \ u.set : n[f] = m[f]
                  /\ (s.row[1] \in db.movies /\ u.null = {}
                        /\ ~Collides(db.movies, s.id, u)) => t.status = 200
                  /\ (s.row[1] \in db.movies /\ t.status = 200) =>
                        /\ \A n \in Stored(db', s.id) : \A f \in u.set : n[f] = u[f]
                        /\ got.status = 200
                        /\ \A f \in DOMAIN got.body[1] :
                              got.body[1][f] = IF f \in u.set THEN u[f]
                                               ELSE MovieDetail(db, s.row[1])[f]
                  /\ t.status # 200 => db' = db]_vars

\* an update that supplied only a score succeeded: its movie holds the new
\* score with its name, date and genre, and the other movie is as created
C6_ScoreOnlyUpdated ==
    \E i \in Answered :
        /\ sess[i].op = "update"
        /\ sess[i].status = 200
        /\ sess[i].u.set = {"score"}
        /\ \E m \in Stored(db, sess[i].id) :
              /\ m.score = sess[i].u.score
              /\ m.score # 50
              /\ m.name # sess[i].u.name
              /\ m.genres # <<>>
        /\ \E o \in db.movies : o.id # sess[i].id /\ o.score = 50

---------------------------------------------------------------------------
(* Field validation: payloads at and beyond the bounds, on two days *)

FieldCreates ==
    {Scored(d, 50, 0, 0) : d \in {365, 366, 367}}
       \cup {Scored(100, s, 0, 0) : s \in {-1, 0, 100, 101}}
       \cup {Scored(100, 50, -1, 0), Scored(100, 50, 0, -1)}
       \cup {[Scored(100, 50, 0, 0) EXCEPT !.name = LongName],
             [Scored(100, 50, 0, 0) EXCEPT !.country = <<117, 115>>],
             [Scored(100, 50, 0, 0) EXCEPT !.status = "Shelved"]}

\* an update payload that supplies a date
Dated(null, date) == [Patch({"date"}, null, "Alien", 50, <<>>) EXCEPT !.date = date]

\* an update payload that supplies one money field
Funded(field, budget, revenue) ==
    [Patch({field}, {}, "Alien", 50, <<>>) EXCEPT !.budget = budget, !.revenue = revenue]

FieldUpdates ==
    {Dated({}, d) : d \in {365, 366, 367}}
       \cup {Dated({"date"}, 365)}
       \cup {Patch({"score"}, {}, "Alien", s, <<>>) : s \in {-1, 100, 101}}
       \cup {Patch({"score"}, {"score"}, "Alien", 50, <<>>)}
       \cup {Patch({"date", "score"}, {"date"}, "Alien", 101, <<>>)}
       \cup {Funded("budget", -1, 0), Funded("revenue", 0, -1)}
       \cup {Patch({"score"}, {}, "Alien", 100, <<StrValue(c)>>) :
               c \in {<<117, 383>>, <<223>>, <<305, 116>>, <<117, 49>>, <<945, 946>>}}
       \cup {Patch({"score"}, {}, "Alien", s, <<NonStrValue>>) : s \in {100, 101}}

NextFields ==
    \/ \E i \in Sessions, p \in FieldCreates : StartCreate(i, p)
    \/ \E i \in Sessions, u \in FieldUpdates : StartUpdate(i, 1, u)
    \/ \E i \in Sessions : StepCreate(i, FALSE)
    \/ \E i \in Sessions : StepUpdate(i)
    \/ \E i \in Sessions : Respond(i)
    \/ Tick

SpecFields == Init /\ [][NextFields]_vars

\* request i arrives and its payload is validated
Arrives(i) == sess[i].pc = "idle" /\ sess'[i].pc # "idle"

Rejected(t) == t.pc = "done" /\ t.status = 422 /\ t.at = "schema"

\* C7: the date bound is enforced when the request arrives, for create and
\* for update. A create payload that is valid but for its date, and an update
\* payload that supplies a date and is valid but for it, is rejected with a
\* validation error exactly when the date is later than today + 365 days;
\* the arrival writes nothing; and a movie written by a create has a date of
\* at most today + 365 days
C7_DateBoundOnCreateAndUpdate ==
    [][/\ \A i \in Sessions : Arrives(i) =>
            LET t == sess'[i]
            IN  /\ db' = db
                /\ (/\ t.op = "create"
                    /\ MovieCreateSchemaOk([t.p EXCEPT !.date = today], today)) =>
                      (Rejected(t) <=> t.p.date > today + MaxFutureDays)
                /\ (/\ t.op = "update"
                    /\ "date" \in t.u.set \ t.u.null
                    /\ MovieUpdateSchemaStatus([t.u EXCEPT !.set = @ \ {"date"}]) = 0) =>
                      (Rejected(t) <=> t.u.date > today + MaxFutureDays)
       /\ \A m \in db'.movies \ db.movies : m.date <= today + MaxFutureDays]_vars

\* a supplied value of a payload is outside its range
CreateOutOfRange(p) ==
    p.score < ScoreMin \/ p.score > ScoreMax \/ p.budget < MoneyMin \/ p.revenue < MoneyMin

UpdateOutOfRange(u) ==
    \/ "score" \in u.set \ u.null /\ (u.score < ScoreMin \/ u.score > ScoreMax)
    \/ "budget" \in u.set \ u.null /\ u.budget < MoneyMin
    \/ "revenue" \in u.set \ u.null /\ u.revenue < MoneyMin

\* C8: every stored movie has a score in [0,100], a budget >= 0 and a
\* revenue >= 0, none of them null; and a create or update payload that
\* carries a score outside [0,100] or a negative budget or revenue is
\* rejected with a validation error when it arrives, nothing being written
C8_RangesOnCreateAndUpdate ==
    [][/\ \A m \in db'.movies :
            /\ m.score >= ScoreMin /\ m.score <= ScoreMax
            /\ m.budget >= MoneyMin
            /\ m.revenue >= MoneyMin
       /\ \A i \in Sessions : Arrives(i) =>
            LET t == sess'[i]
            IN  /\ (t.op = "create" /\ CreateOutOfRange(t.p)) => Rejected(t) /\ db' = db
                /\ (t.op = "update" /\ UpdateOutOfRange(t.u)) => Rejected(t) /\ db' = db]_vars

---------------------------------------------------------------------------
(* The race: creates of the same movie and of the same lookup entities in
   flight together *)

RaceCreates ==
    {Linked("Alien", FR, <<"Drama">>, <<>>, <<>>),
     Linked("Alien", FR, <<"Comedy">>, <<>>, <<>>),
     Linked("Brazil", FR, <<"Drama">>, <<>>, <<>>)}

NextRace ==
    \/ \E i \in Sessions, p \in RaceCreates : StartCreate(i, p)
    \/ \E i \in Sessions : StepCreate(i, FALSE)
    \/ \E i \in Sessions : Respond(i)

SpecRace == Init /\ [][NextRace]_vars

\* C10: of two creates with the same (name, date) that were in flight
\* together, at most one persists a movie and the other is answered with
\* Conflict; and no two rows of a lookup table share a code or a name
C10_RaceAnsweredConflict ==
    /\ MovieUnique(db.movies)
    /\ \A n \in 1..4 : LookupUnique(Kinds[n], db[Kinds[n]])
    /\ \A i, j \in Answered :
          (/\ i # j
           /\ sess[i].op = "create" /\ sess[j].op = "create"
           /\ sess[i].status # 422 /\ sess[j].status # 422
           /\ sess[i].p.name = sess[j].p.name
           /\ sess[i].p.date = sess[j].p.date
           /\ sess[i].status = 201) => sess[j].status = 409

====
